---- MODULE Spec2Model ----
(***************************************************************************)
(* RoomVerse booking lifecycle and room inventory.                         *)
(*                                                                         *)
(* The Express handlers of backend/routes/bookings.js run concurrently:    *)
(* each `await` on a Mongoose call is a point where another request may    *)
(* run.  Every action below is one such segment: a database read or write  *)
(* together with the synchronous JavaScript that follows it up to the next *)
(* database call.  The arrival of a request is merged with its first read. *)
(*                                                                         *)
(* document.save() writes the paths the handler modified (Mongoose sends   *)
(* a $set of the dirty paths); it is not a conditional update.             *)
(***************************************************************************)
EXTENDS Integers, Sequences, FiniteSets, TLC

\* ------------------------------------------------------------ bounds
\* Requests that get past their first checks in one behaviour.  A request
\* answered with an error by its first segment leaves no trace and is not
\* counted.
MaxRequests == 4
\* Largest paidAmount of the bookings whose refund is computed.
MaxPaid == 90
\* Largest tariff (rent, deposit, maintenance, food cost) of a listed hostel
\* and longest stay in months, where prices are computed.
MaxTariff == 1
MaxDuration == 2

\* ------------------------------------------------------------ domains
\* The handler invocations that may be in flight together.  A request is
\* given the first free slot.
Slots == {"r1", "r2"}
Earlier(r) == IF r = "r2" THEN {"r1"} ELSE {}

\* totalRooms of the room type on offer when the hostel is listed.
RoomTotals == {1, 2}

Students == {"s1", "s2"}
Owners == {"o1", "o2"}
Admins == {"a1"}
UserIds == Students \cup Owners \cup Admins

RoleOf(uid) ==
  IF uid \in Students THEN "Student"
  ELSE IF uid \in Owners THEN "HostelOwner" ELSE "Admin"

HostelIds == {"h1", "h2"}
MissingHostel == "h0"
RoomTypes == {"Single", "Double"}

\* Orders the gateway creates for bookings, and the order ids a client may
\* submit: those, and an order of the same merchant made for something else.
GatewayOrderIds == {"order1"}
OrderIds == GatewayOrderIds \cup {"order2"}
PaymentIds == {"pay1", "pay2"}

Today == 0
\* What a client may send: <<checkIn day, nights>>, months, food plan.
DateInputs == {<<Today - 1, 30>>, <<Today + 20, 0>>, <<Today + 20, 30>>}
DurationInputs == {0, 2}
FoodInputs == {FALSE}

KeySecret == "RAZORPAY_KEY_SECRET"
WrongSecret == "attacker-secret"

\* crypto.createHmac('sha256', secret).update(body).digest('hex'), taken as
\* an injective function of the key and the signed text.
Hmac(secret, text) == <<secret, text>>

\* razorpay_order_id + '|' + razorpay_payment_id
SignedBody(ord, pay) == <<ord, "|", pay>>

\* The payments the gateway has captured and signed, each for one order.
GatewayPayments == {<<"order1", "pay1">>, <<"order2", "pay2">>}

\* The signatures a client can send with (ord, pay): any the gateway has
\* issued, or one made without the key secret.
ClientSignatures(ord, pay) ==
  {Hmac(KeySecret, SignedBody(g[1], g[2])) : g \in GatewayPayments}
    \cup {Hmac(WrongSecret, SignedBody(ord, pay))}
NoSignature == Hmac("", SignedBody("", ""))

ActiveStatuses == {"Pending", "Confirmed", "Paid", "CheckedIn", "Active"}
TerminalStatuses == {"Completed", "Cancelled", "Rejected", "Expired"}
Statuses == ActiveStatuses \cup {"CheckedOut"} \cup TerminalStatuses

VARIABLES
  bookings,   \* the Booking collection: a sequence of documents, _id = index
  hostels,    \* the Hostel collection: HostelIds -> document
  reqs,       \* the handler invocations in flight, one per slot
  accepted    \* the number of requests that got past their first checks

vars == <<bookings, hostels, reqs, accepted>>

\* ------------------------------------------------------------ documents
\* bookingSchema, with its defaults.  Timestamps are left out.
BlankDoc ==
  [bookingId |-> 0, student |-> "", hostel |-> "", owner |-> "",
   roomType |-> "", checkIn |-> 0, duration |-> 0,
   pricing |-> [monthlyRent |-> 0, securityDeposit |-> 0,
                maintenanceCharges |-> 0, totalAmount |-> 0,
                paidAmount |-> 0, pendingAmount |-> 0],
   foodOptions |-> [selected |-> FALSE, monthlyCost |-> 0],
   status |-> "Pending",
   payment |-> [razorpayOrderId |-> "", razorpayPaymentId |-> "",
                razorpaySignature |-> NoSignature],
   cancellation |-> [cancelledBy |-> "", refundAmount |-> 0,
                     refundStatus |-> "Not Applicable"]]

\* A handler invocation: where it stands and its local variables.  from is
\* the status of the booking as loaded, pay the razorpay_payment_id of the
\* request body, samePay whether the loaded booking already carried it; doc
\* holds the values of the
\* dirty paths (the other paths are never written and are kept blank);
\* amount is the amount of the order asked of the gateway, in paise.
Idle ==
  [pc |-> "idle", user |-> "", bid |-> 0, from |-> "", pay |-> "",
   samePay |-> FALSE,
   doc |-> BlankDoc, dirty |-> {}, hid |-> "", rt |-> "",
   avail |-> 0, occ |-> 0, amount |-> 0]

\* hostelSchema: the fields the booking routes read or write.
HostelDoc(owner, status, verified, rooms, foodAvailable) ==
  [owner |-> owner, status |-> status, isVerified |-> verified,
   rooms |-> rooms,
   pricing |-> [monthlyRent |-> 3, securityDeposit |-> 2, maintenanceCharges |-> 1],
   foodOptions |-> [available |-> foodAvailable, monthlyCost |-> 2],
   currentOccupancy |-> 0]

Room(total) == [totalRooms |-> total, availableRooms |-> total]

\* h1 is an Active, verified hostel of owner o1 with Single rooms, all of
\* them free; h2 is a listing of owner o2 still under review.
Init ==
  /\ bookings = <<>>
  /\ \E n \in RoomTotals :
       hostels = [h \in HostelIds |->
                    IF h = "h1"
                    THEN HostelDoc("o1", "Active", TRUE,
                                   [t \in {"Single"} |-> Room(n)], TRUE)
                    ELSE HostelDoc("o2", "Under Review", FALSE,
                                   [t \in {"Single"} |-> Room(n)], FALSE)]
  /\ reqs = [r \in Slots |-> Idle]
  /\ accepted = 0

\* ------------------------------------------------------------ helpers
Finish(r) == reqs' = [reqs EXCEPT ![r] = Idle]

Goto(r, rec) == reqs' = [reqs EXCEPT ![r] = rec]

\* A request arrives at a free slot.
Receive(r) ==
  /\ reqs[r].pc = "idle"
  /\ \A e \in Earlier(r) : reqs[e].pc # "idle"
  /\ accepted < MaxRequests

\* The first segment of a handler: a request whose checks give an error is
\* answered with it at once and takes no step; one that passes them goes
\* on to its first save.
FirstSegment(r, outcome, next) ==
  /\ Receive(r)
  /\ outcome = "Proceed"
  /\ Goto(r, next)
  /\ accepted' = accepted + 1
  /\ UNCHANGED <<bookings, hostels>>

\* A later segment that ends the handler without a write (an early return,
\* or an exception caught by the handler's catch, which answers 500).
Reply(r) ==
  /\ Finish(r)
  /\ UNCHANGED <<bookings, hostels, accepted>>

\* authorize(...roles): 403 unless the caller has one of the roles.
Authorize(uid, roles) == RoleOf(uid) \in roles

\* The ids a request may name: the stored bookings and one unknown id.
BookingIds == 1..(Len(bookings) + 1)

\* Booking.findById
FindBooking(b) == b \in DOMAIN bookings

\* (mutant) a pre-save hook that leaves pendingAmount as it is.
PreSaveKeepsPending(doc) == doc

\* bookingSchema.pre('save'): pendingAmount is recomputed on every save.
PreSave(doc) ==
  [doc EXCEPT !.pricing.pendingAmount =
                 doc.pricing.totalAmount - doc.pricing.paidAmount]

\* A path of a booking document.
GetPath(doc, path) ==
  CASE path = "status" -> <<doc.status>>
    [] path = "pricing.paidAmount" -> <<doc.pricing.paidAmount>>
    [] path = "pricing.pendingAmount" -> <<doc.pricing.pendingAmount>>
    [] path = "payment" -> <<doc.payment>>
    [] path = "payment.razorpayOrderId" -> <<doc.payment.razorpayOrderId>>
    [] path = "cancellation" -> <<doc.cancellation>>

\* The paths a save writes: those the handler set to a value other than
\* the loaded one, and pendingAmount when the pre-save hook changes it.
DirtyPaths(loaded, doc, touched) ==
  {p \in touched \cup {"pricing.pendingAmount"} :
     GetPath(PreSave(doc), p) # GetPath(loaded, p)}

\* The stored document after a $set of the dirty paths of doc.
Written(db, doc, dirty) ==
  [db EXCEPT
     !.status = IF "status" \in dirty THEN doc.status ELSE @,
     !.pricing.paidAmount =
        IF "pricing.paidAmount" \in dirty THEN doc.pricing.paidAmount ELSE @,
     !.pricing.pendingAmount =
        IF "pricing.pendingAmount" \in dirty THEN doc.pricing.pendingAmount ELSE @,
     !.payment =
        IF "payment" \in dirty THEN doc.payment
        ELSE IF "payment.razorpayOrderId" \in dirty
             THEN [@ EXCEPT !.razorpayOrderId = doc.payment.razorpayOrderId]
             ELSE @,
     !.cancellation = IF "cancellation" \in dirty THEN doc.cancellation ELSE @]

\* The local values a save sends: the dirty paths after the pre-save hook.
Patch(doc, dirty) == Written(BlankDoc, PreSave(doc), dirty)

\* (mutant) a save that replaces the collection by the saved document.
SaveBookingAlone(b, patch, dirty) ==
  << Written(bookings[b], patch, dirty) >>

\* document.save() of a loaded booking.
SaveBooking(b, patch, dirty) ==
  [bookings EXCEPT ![b] = Written(@, patch, dirty)]

\* cancellation.cancelledBy: enum ['Student', 'Owner', 'Admin'].
CancelledByEnum == {"Student", "Owner", "Admin"}

\* Validation run by save() on the modified paths of a booking.
BookingValid(doc, dirty) ==
  \/ "cancellation" \notin dirty
  \/ doc.cancellation.cancelledBy \in CancelledByEnum

\* (mutant) the schema without its min validator.
HostelValidUnchecked(avail) == TRUE

\* rooms.availableRooms: min 0, validated by hostel.save().
HostelValid(avail) == avail >= 0

\* hostel.save() after rooms[i].availableRooms and currentOccupancy were set.
SaveHostel(h, rt, avail, occ) ==
  [hostels EXCEPT ![h].rooms[rt].availableRooms = avail,
                  ![h].currentOccupancy = occ]

\* ------------------------------------------------------------ createBooking
\* Lines 111-123: the price of the stay.
ComputeTotal(hostel, duration, foodSelected) ==
  LET base == hostel.pricing.monthlyRent * duration
                + hostel.pricing.securityDeposit
                + hostel.pricing.maintenanceCharges * duration
  IN IF foodSelected /\ hostel.foodOptions.available
     THEN base + hostel.foodOptions.monthlyCost * duration
     ELSE base

\* new Booking({...}), lines 126-148.
NewBooking(uid, h, hostel, rt, ci, duration, foodSelected) ==
  [BlankDoc EXCEPT
     !.student = uid, !.hostel = h, !.owner = hostel.owner, !.roomType = rt,
     !.checkIn = ci, !.duration = duration,
     !.pricing.monthlyRent = hostel.pricing.monthlyRent,
     !.pricing.securityDeposit = hostel.pricing.securityDeposit,
     !.pricing.maintenanceCharges = hostel.pricing.maintenanceCharges,
     !.pricing.totalAmount = ComputeTotal(hostel, duration, foodSelected),
     !.foodOptions = IF foodSelected
                     THEN [selected |-> TRUE,
                           monthlyCost |-> hostel.foodOptions.monthlyCost]
                     ELSE [selected |-> FALSE, monthlyCost |-> 0]]

\* Lines 89-96: the availability check on the loaded hostel.
RoomAvailable(hostel, rt) ==
  rt \in DOMAIN hostel.rooms /\ hostel.rooms[rt].availableRooms > 0

\* (mutant) createBooking that looks for the room type but not for a free
\* room of it.
CreateBookingCheckAnyRoom(uid, h, rt, ci, nights, duration) ==
  IF ~Authorize(uid, {"Student"}) THEN "Forbidden"
  ELSE IF duration < 1 THEN "ValidationFailed"
  ELSE IF ci < Today THEN "PastCheckIn"
  ELSE IF ci + nights <= ci THEN "BadCheckOut"
  ELSE IF h \notin DOMAIN hostels THEN "HostelNotFound"
  ELSE IF hostels[h].status # "Active" \/ ~hostels[h].isVerified
    THEN "HostelUnavailable"
  ELSE IF rt \notin DOMAIN hostels[h].rooms THEN "RoomUnavailable"
  ELSE "Proceed"

\* (mutant) createBooking without its two date checks.
CreateBookingCheckAnyDates(uid, h, rt, ci, nights, duration) ==
  IF ~Authorize(uid, {"Student"}) THEN "Forbidden"
  ELSE IF duration < 1 THEN "ValidationFailed"
  ELSE IF h \notin DOMAIN hostels THEN "HostelNotFound"
  ELSE IF hostels[h].status # "Active" \/ ~hostels[h].isVerified
    THEN "HostelUnavailable"
  ELSE IF ~RoomAvailable(hostels[h], rt) THEN "RoomUnavailable"
  ELSE "Proceed"

\* POST /api/bookings, lines 21-96: what authorize, the validators, the
\* date checks, Hostel.findById and the availability check answer.
CreateBookingCheck(uid, h, rt, ci, nights, duration) ==
  IF ~Authorize(uid, {"Student"}) THEN "Forbidden"
  ELSE IF duration < 1 THEN "ValidationFailed"
  ELSE IF ci < Today THEN "PastCheckIn"
  ELSE IF ci + nights <= ci THEN "BadCheckOut"
  ELSE IF h \notin DOMAIN hostels THEN "HostelNotFound"
  ELSE IF hostels[h].status # "Active" \/ ~hostels[h].isVerified
    THEN "HostelUnavailable"
  ELSE IF ~RoomAvailable(hostels[h], rt) THEN "RoomUnavailable"
  ELSE "Proceed"

\* POST /api/bookings up to the await of Booking.findOne.
CreateBookingStart(r, uid, h, rt, ci, nights, duration, foodSelected) ==
  FirstSegment(r, CreateBookingCheck(uid, h, rt, ci, nights, duration),
               [Idle EXCEPT
                  !.pc = "cb_find", !.user = uid,
                  !.doc = NewBooking(uid, h, hostels[h], rt, ci, duration,
                                     foodSelected)])

\* Booking.findOne({student, status in the five active ones}), lines 98-109.
HasActiveBooking(uid) ==
  \E i \in DOMAIN bookings :
    bookings[i].student = uid /\ bookings[i].status \in ActiveStatuses

CreateBookingFind(r) ==
  /\ reqs[r].pc = "cb_find"
  /\ IF HasActiveBooking(reqs[r].user)
       THEN Reply(r)
       ELSE /\ Goto(r, [reqs[r] EXCEPT !.pc = "cb_save"])
            /\ UNCHANGED <<bookings, hostels, accepted>>

\* booking.save() of the new document.  bookingId is required by the schema
\* and is set by the pre('save') hook, not by the handler.  Mongoose runs its
\* own validation as the first pre('save') hook, but Mongoose is not part of
\* the repository, so both orders are allowed for: hookFirst tells whether
\* the hook has set bookingId by the time the document is validated.  If it
\* has not, validation fails and the catch answers 500.  The hook draws the
\* bookingId at random: drawn names the stored booking whose id it repeats
\* (the unique index then rejects the insert and the catch answers 500),
\* or, past the stored ones, a fresh id.  Fresh ids are numbered in order.
\* There is no second attempt.
CreateBookingSave(r, drawn, hookFirst) ==
  /\ reqs[r].pc = "cb_save"
  /\ LET doc == PreSave([reqs[r].doc EXCEPT !.bookingId = drawn])
     IN IF ~hookFirst
             \/ \E i \in DOMAIN bookings : bookings[i].bookingId = doc.bookingId
          THEN Reply(r)
          ELSE /\ bookings' = Append(bookings, doc)
               /\ Finish(r)
               /\ UNCHANGED <<hostels, accepted>>

\* ------------------------------------------------------------ confirm
\* The handler's state between loading a booking and saving it.
Loaded(pc, b, loaded, doc, touched, pay) ==
  [Idle EXCEPT
     !.pc = pc, !.bid = b, !.from = loaded.status, !.pay = pay,
     !.samePay = (pay # "" /\ loaded.payment.razorpayPaymentId = pay),
     !.dirty = DirtyPaths(loaded, doc, touched),
     !.doc = Patch(doc, DirtyPaths(loaded, doc, touched)),
     !.hid = loaded.hostel, !.rt = loaded.roomType]

\* (mutant) confirm without its status check.
ConfirmCheckAnyStatus(uid, b) ==
  IF ~Authorize(uid, {"HostelOwner"}) THEN "Forbidden"
  ELSE IF ~FindBooking(b) THEN "NotFound"
  ELSE IF bookings[b].owner # uid THEN "Forbidden"
  ELSE "Proceed"

\* PUT /api/bookings/:id/confirm, lines 289-315: the checks.
ConfirmCheck(uid, b) ==
  IF ~Authorize(uid, {"HostelOwner"}) THEN "Forbidden"
  ELSE IF ~FindBooking(b) THEN "NotFound"
  ELSE IF bookings[b].owner # uid THEN "Forbidden"
  ELSE IF bookings[b].status # "Pending" THEN "InvalidTransition"
  ELSE "Proceed"

\* PUT /api/bookings/:id/confirm up to the await of booking.save().
ConfirmStart(r, uid, b) ==
  FirstSegment(r, ConfirmCheck(uid, b),
               Loaded("cf_save", b, bookings[b],
                      [bookings[b] EXCEPT !.status = "Confirmed"],
                      {"status"}, ""))

\* await booking.save(), then the 200 response.
ConfirmSave(r) ==
  /\ reqs[r].pc = "cf_save"
  /\ bookings' = SaveBooking(reqs[r].bid, reqs[r].doc, reqs[r].dirty)
  /\ Finish(r)
  /\ UNCHANGED <<hostels, accepted>>

\* ------------------------------------------------------------ reject
\* Lines 382-386: the document reject saves.
RejectedDoc(doc) ==
  [doc EXCEPT
     !.status = "Rejected",
     !.cancellation = [cancelledBy |-> "Owner", refundAmount |-> 0,
                       refundStatus |-> "Not Applicable"]]

\* PUT /api/bookings/:id/reject, lines 343-380: the checks.
RejectCheck(uid, b) ==
  IF ~Authorize(uid, {"HostelOwner"}) THEN "Forbidden"
  ELSE IF ~FindBooking(b) THEN "NotFound"
  ELSE IF bookings[b].owner # uid THEN "Forbidden"
  ELSE IF bookings[b].status # "Pending" THEN "InvalidTransition"
  ELSE "Proceed"

\* PUT /api/bookings/:id/reject up to the await of booking.save().
RejectStart(r, uid, b) ==
  FirstSegment(r, RejectCheck(uid, b),
               Loaded("rj_save", b, bookings[b], RejectedDoc(bookings[b]),
                      {"status", "cancellation"}, ""))

\* await booking.save(), then the 200 response.  The hostel is not touched.
RejectSave(r) ==
  /\ reqs[r].pc = "rj_save"
  /\ IF BookingValid(reqs[r].doc, reqs[r].dirty)
       THEN /\ bookings' = SaveBooking(reqs[r].bid, reqs[r].doc, reqs[r].dirty)
            /\ Finish(r)
            /\ UNCHANGED <<hostels, accepted>>
       ELSE Reply(r)

\* ------------------------------------------------------------ cancel
\* (mutant) every booking can be cancelled.
CanBeCancelledAlways(doc) == TRUE

\* bookingSchema.methods.canBeCancelled
CanBeCancelled(doc) == doc.status \in {"Pending", "Confirmed", "Paid"}

\* Math.ceil((checkInDate - now) / one day), now being the start of Today.
DaysUntilCheckIn(doc) == doc.checkIn - Today

\* bookingSchema.methods.calculateRefund, lines 258-268: refundPercentage,
\* in tenths.
RefundTenths(days) ==
  IF days > 30 THEN 9
  ELSE IF days > 15 THEN 7
  ELSE IF days > 7 THEN 5
  ELSE IF days > 0 THEN 2
  ELSE 0

RECURSIVE Pow2(_)
Pow2(e) == IF e = 0 THEN 1 ELSE 2 * Pow2(e - 1)

\* The power of two p with p <= n < 2p: the binade of the double n.
Binade(n) == CHOOSE p \in {Pow2(e) : e \in 0..24} : p <= n /\ n < 2 * p

\* Math.floor(paidAmount * refundPercentage) on IEEE-754 doubles, for an
\* integer paidAmount and the percentage tenths/10.  The doubles 0.9 and
\* 0.2 lie above the decimal and 0.5 is exact, so the floor of the rounded
\* product is the exact floor.  The double 0.7 lies below 0.7 by 2^-52 / 5:
\* where paidAmount * 0.7 is an integer n, the product is n less
\* n * 2^-52 * 2/7, which rounds back to n only while that is at most half
\* the spacing of the doubles below n (4n <= 7 * Binade(n)); otherwise the
\* product is the double below n and the floor is n - 1.
FloorOfProduct(paidAmount, tenths) ==
  LET exact == paidAmount * tenths
      n == exact \div 10
  IN IF tenths = 7 /\ exact > 0 /\ exact % 10 = 0 /\ 4 * n > 7 * Binade(n)
     THEN n - 1
     ELSE n

\* return Math.floor(this.pricing.paidAmount * refundPercentage), line 270.
CalculateRefund(doc) ==
  FloorOfProduct(doc.pricing.paidAmount, RefundTenths(DaysUntilCheckIn(doc)))

\* Lines 453-465: the document cancel saves.
CancelledDocAlwaysPending(doc, uid) ==
  LET refundAmount == IF doc.pricing.paidAmount > 0 THEN CalculateRefund(doc) ELSE 0
  IN [doc EXCEPT
        !.status = "Cancelled",
        !.cancellation = [cancelledBy |-> RoleOf(uid),
                          refundAmount |-> refundAmount,
                          refundStatus |-> "Pending"]]

CancelledDoc(doc, uid) ==
  LET refundAmount == IF doc.pricing.paidAmount > 0 THEN CalculateRefund(doc) ELSE 0
  IN [doc EXCEPT
        !.status = "Cancelled",
        !.cancellation = [cancelledBy |-> RoleOf(uid),
                          refundAmount |-> refundAmount,
                          refundStatus |-> IF refundAmount > 0
                                           THEN "Pending"
                                           ELSE "Not Applicable"]]

\* Lines 434-437: who may cancel.
CanCancel(doc, uid) ==
  \/ doc.student = uid
  \/ doc.owner = uid
  \/ RoleOf(uid) = "Admin"

\* (mutant) cancel open to every caller.
CancelCheckAnyCaller(uid, b, hasReason) ==
  IF ~hasReason THEN "ValidationFailed"
  ELSE IF ~FindBooking(b) THEN "NotFound"
  ELSE IF ~CanBeCancelled(bookings[b]) THEN "InvalidTransition"
  ELSE "Proceed"

\* PUT /api/bookings/:id/cancel, lines 412-451: the checks.
CancelCheck(uid, b, hasReason) ==
  IF ~hasReason THEN "ValidationFailed"
  ELSE IF ~FindBooking(b) THEN "NotFound"
  ELSE IF ~CanCancel(bookings[b], uid) THEN "Forbidden"
  ELSE IF ~CanBeCancelled(bookings[b]) THEN "InvalidTransition"
  ELSE "Proceed"

\* PUT /api/bookings/:id/cancel up to the await of booking.save().
CancelStart(r, uid, b, hasReason) ==
  FirstSegment(r, CancelCheck(uid, b, hasReason),
               Loaded("cn_save", b, bookings[b],
                      CancelledDoc(bookings[b], uid),
                      {"status", "cancellation"}, ""))

\* await booking.save(): a cancelledBy outside the enum fails validation
\* and the catch answers 500.
CancelSave(r) ==
  /\ reqs[r].pc = "cn_save"
  /\ IF BookingValid(reqs[r].doc, reqs[r].dirty)
       THEN /\ bookings' = SaveBooking(reqs[r].bid, reqs[r].doc, reqs[r].dirty)
            /\ Goto(r, [reqs[r] EXCEPT !.pc = "cn_hostel", !.doc = BlankDoc,
                                       !.dirty = {}])
            /\ UNCHANGED <<hostels, accepted>>
       ELSE Reply(r)

\* Lines 470-473: Hostel.findById and rooms.findIndex.
RoomFound(h, rt) == h \in DOMAIN hostels /\ rt \in DOMAIN hostels[h].rooms

\* (mutant) cancel releasing two rooms.
CancelLoadHostelTwoRooms(r) ==
  /\ reqs[r].pc = "cn_hostel"
  /\ IF RoomFound(reqs[r].hid, reqs[r].rt)
       THEN /\ Goto(r, [reqs[r] EXCEPT
                          !.pc = "cn_hsave",
                          !.avail = hostels[reqs[r].hid].rooms[reqs[r].rt].availableRooms + 2])
            /\ UNCHANGED <<bookings, hostels, accepted>>
       ELSE Reply(r)

\* await Hostel.findById(booking.hostel), then availableRooms += 1 on the
\* loaded copy.
CancelLoadHostel(r) ==
  /\ reqs[r].pc = "cn_hostel"
  /\ IF RoomFound(reqs[r].hid, reqs[r].rt)
       THEN /\ Goto(r, [reqs[r] EXCEPT
                          !.pc = "cn_hsave",
                          !.avail = hostels[reqs[r].hid].rooms[reqs[r].rt].availableRooms + 1])
            /\ UNCHANGED <<bookings, hostels, accepted>>
       ELSE Reply(r)

\* await hostel.save() (only availableRooms is dirty), then the 200 response.
CancelSaveHostel(r) ==
  /\ reqs[r].pc = "cn_hsave"
  /\ IF HostelValid(reqs[r].avail)
       THEN /\ hostels' = SaveHostel(reqs[r].hid, reqs[r].rt, reqs[r].avail,
                                     hostels[reqs[r].hid].currentOccupancy)
            /\ Finish(r)
            /\ UNCHANGED <<bookings, accepted>>
       ELSE Reply(r)

\* ------------------------------------------------------------ create-order
\* (mutant) create-order going on to its save when the gateway has thrown.
CreateOrderCheckGatewayIgnored(uid, b, ok) ==
  IF ~Authorize(uid, {"Student"}) THEN "Forbidden"
  ELSE IF ~FindBooking(b) THEN "NotFound"
  ELSE IF bookings[b].student # uid THEN "Forbidden"
  ELSE IF bookings[b].status # "Confirmed" THEN "NotConfirmed"
  ELSE IF bookings[b].pricing.pendingAmount <= 0 THEN "NoPendingAmount"
  ELSE "Proceed"

\* (mutant) the order asked for in rupees.
OrderAmountInRupees(doc) == doc.pricing.pendingAmount

\* Line 539: options.amount, the amount in paise.
OrderAmount(doc) == doc.pricing.pendingAmount * 100

\* POST /api/bookings/:id/payment/create-order, lines 504-549: the checks,
\* then razorpay.orders.create, which answers with an order (ok) or throws
\* (the catch answers 500).  There is no retry.
CreateOrderCheck(uid, b, ok) ==
  IF ~Authorize(uid, {"Student"}) THEN "Forbidden"
  ELSE IF ~FindBooking(b) THEN "NotFound"
  ELSE IF bookings[b].student # uid THEN "Forbidden"
  ELSE IF bookings[b].status # "Confirmed" THEN "NotConfirmed"
  ELSE IF bookings[b].pricing.pendingAmount <= 0 THEN "NoPendingAmount"
  ELSE IF ~ok THEN "ServerError"
  ELSE "Proceed"

\* POST /api/bookings/:id/payment/create-order up to the await of
\* booking.save().  The gateway call touches no stored document, so its
\* await is not a separate step.
CreateOrderStart(r, uid, b, ok, ord) ==
  FirstSegment(r, CreateOrderCheck(uid, b, ok),
               [Loaded("co_save", b, bookings[b],
                       [bookings[b] EXCEPT !.payment.razorpayOrderId = ord],
                       {"payment.razorpayOrderId"}, "")
                  EXCEPT !.amount = OrderAmount(bookings[b])])

\* await booking.save(), then the 200 response.
CreateOrderSave(r) ==
  /\ reqs[r].pc = "co_save"
  /\ bookings' = SaveBooking(reqs[r].bid, reqs[r].doc, reqs[r].dirty)
  /\ Finish(r)
  /\ UNCHANGED <<hostels, accepted>>

\* ------------------------------------------------------------ payment verify
\* Lines 610-617: the signature the handler expects.
ExpectedSignature(ord, pay) == Hmac(KeySecret, SignedBody(ord, pay))

\* (mutant) the payment is recorded but the amounts are not settled.
PaidDocAmountsUnset(doc, pay, sig) ==
  [doc EXCEPT
     !.status = "Paid",
     !.payment = [@ EXCEPT !.razorpayPaymentId = pay,
                           !.razorpaySignature = sig]]

\* Lines 624-636: the document payment verification saves.
PaidDoc(doc, pay, sig) ==
  [doc EXCEPT
     !.status = "Paid",
     !.pricing.paidAmount = doc.pricing.totalAmount,
     !.pricing.pendingAmount = 0,
     !.payment = [@ EXCEPT !.razorpayPaymentId = pay,
                           !.razorpaySignature = sig]]

\* (mutant) the handler without its signature comparison.
VerifyCheckUnsigned(uid, b, ord, pay, sig) ==
  IF ~Authorize(uid, {"Student"}) THEN "Forbidden"
  ELSE IF ~FindBooking(b) THEN "NotFound"
  ELSE IF bookings[b].student # uid THEN "Forbidden"
  ELSE "Proceed"

\* POST /api/bookings/:id/payment/verify, lines 576-622: the checks.
VerifyCheck(uid, b, ord, pay, sig) ==
  IF ~Authorize(uid, {"Student"}) THEN "Forbidden"
  ELSE IF ~FindBooking(b) THEN "NotFound"
  ELSE IF bookings[b].student # uid THEN "Forbidden"
  ELSE IF ExpectedSignature(ord, pay) # sig THEN "InvalidSignature"
  ELSE "Proceed"

\* POST /api/bookings/:id/payment/verify up to the await of booking.save().
VerifyStart(r, uid, b, ord, pay, sig) ==
  FirstSegment(r, VerifyCheck(uid, b, ord, pay, sig),
               Loaded("pv_save", b, bookings[b],
                      PaidDoc(bookings[b], pay, sig),
                      {"status", "pricing.paidAmount",
                       "pricing.pendingAmount", "payment"},
                      pay))

\* await booking.save().
VerifySave(r) ==
  /\ reqs[r].pc = "pv_save"
  /\ bookings' = SaveBooking(reqs[r].bid, reqs[r].doc, reqs[r].dirty)
  /\ Goto(r, [reqs[r] EXCEPT !.pc = "pv_hostel", !.pay = "",
                             !.doc = BlankDoc, !.dirty = {}])
  /\ UNCHANGED <<hostels, accepted>>

\* await Hostel.findById(booking.hostel), then availableRooms -= 1 and
\* currentOccupancy += 1 on the loaded copy.
VerifyLoadHostel(r) ==
  /\ reqs[r].pc = "pv_hostel"
  /\ IF RoomFound(reqs[r].hid, reqs[r].rt)
       THEN /\ Goto(r, [reqs[r] EXCEPT
                          !.pc = "pv_hsave",
                          !.avail = hostels[reqs[r].hid].rooms[reqs[r].rt].availableRooms - 1,
                          !.occ = hostels[reqs[r].hid].currentOccupancy + 1])
            /\ UNCHANGED <<bookings, hostels, accepted>>
       ELSE Reply(r)

\* await hostel.save(): a negative availableRooms fails validation and the
\* catch answers 500; otherwise the 200 response.
VerifySaveHostel(r) ==
  /\ reqs[r].pc = "pv_hsave"
  /\ IF HostelValid(reqs[r].avail)
       THEN /\ hostels' = SaveHostel(reqs[r].hid, reqs[r].rt, reqs[r].avail,
                                     reqs[r].occ)
            /\ Finish(r)
            /\ UNCHANGED <<bookings, accepted>>
       ELSE Reply(r)

\* ------------------------------------------------------------ next state
Next ==
  \E r \in Slots :
    \/ /\ Receive(r)
       /\ \E uid \in UserIds, h \in HostelIds \cup {MissingHostel},
             rt \in RoomTypes, dates \in DateInputs,
             duration \in DurationInputs, foodSelected \in FoodInputs :
            CreateBookingStart(r, uid, h, rt, dates[1], dates[2], duration,
                               foodSelected)
    \/ CreateBookingFind(r)
    \/ \E drawn \in BookingIds, hookFirst \in BOOLEAN :
         CreateBookingSave(r, drawn, hookFirst)
    \/ /\ Receive(r)
       /\ \E uid \in UserIds, b \in BookingIds : ConfirmStart(r, uid, b)
    \/ ConfirmSave(r)
    \/ /\ Receive(r)
       /\ \E uid \in UserIds, b \in BookingIds : RejectStart(r, uid, b)
    \/ RejectSave(r)
    \/ /\ Receive(r)
       /\ \E uid \in UserIds, b \in BookingIds, hasReason \in BOOLEAN :
            CancelStart(r, uid, b, hasReason)
    \/ CancelSave(r)
    \/ CancelLoadHostel(r)
    \/ CancelSaveHostel(r)
    \/ /\ Receive(r)
       /\ \E uid \in UserIds, b \in BookingIds, ok \in BOOLEAN,
             ord \in GatewayOrderIds :
            CreateOrderStart(r, uid, b, ok, ord)
    \/ CreateOrderSave(r)
    \/ /\ Receive(r)
       /\ \E uid \in UserIds, b \in BookingIds, ord \in OrderIds, pay \in PaymentIds :
            \E sig \in ClientSignatures(ord, pay) : VerifyStart(r, uid, b, ord, pay, sig)
    \/ VerifySave(r)
    \/ VerifyLoadHostel(r)
    \/ VerifySaveHostel(r)

Spec == Init /\ [][Next]_vars

\* ------------------------------------------------------------ scheduling
\* The segments that follow an await: once the database call returns, the
\* event loop runs the rest of the handler.  Requests arrive when clients
\* send them, if ever.
Continue(r) ==
  \/ CreateBookingFind(r)
  \/ \E drawn \in BookingIds, hookFirst \in BOOLEAN :
         CreateBookingSave(r, drawn, hookFirst)
  \/ ConfirmSave(r)
  \/ RejectSave(r)
  \/ CancelSave(r)
  \/ CancelLoadHostel(r)
  \/ CancelSaveHostel(r)
  \/ CreateOrderSave(r)
  \/ VerifySave(r)
  \/ VerifyLoadHostel(r)
  \/ VerifySaveHostel(r)

\* Every handler that was started runs to its response.
SpecFair == Init /\ [][Next]_vars /\ \A r \in Slots : WF_vars(Continue(r))

\* ------------------------------------------------------------ listings
\* Hostel.create(req.body) and findByIdAndUpdate(req.body) of routes/hostels.js
\* store the tariffs and food options the owner sends, within the schema's
\* minimum of 0.  h1 is listed with any tariffs, with or without food on
\* offer; h2 is still under review.
InitCreate ==
  /\ bookings = <<>>
  /\ \E rent \in 0..MaxTariff, deposit \in 0..MaxTariff,
        maintenance \in 0..MaxTariff, food \in 0..MaxTariff,
        foodAvailable \in BOOLEAN :
       hostels = [h \in HostelIds |->
                    IF h = "h1"
                    THEN [HostelDoc("o1", "Active", TRUE,
                                    [t \in {"Single"} |-> Room(1)],
                                    foodAvailable)
                            EXCEPT !.pricing = [monthlyRent |-> rent,
                                                securityDeposit |-> deposit,
                                                maintenanceCharges |-> maintenance],
                                   !.foodOptions.monthlyCost = food]
                    ELSE HostelDoc("o2", "Under Review", FALSE,
                                   [t \in {"Single"} |-> Room(1)], FALSE)]
  /\ reqs = [r \in Slots |-> Idle]
  /\ accepted = 0

\* What a client may send to POST /api/bookings: months of stay (0 fails
\* isInt({min: 1})) and a food plan selected or not.
CreateDurations == 0..MaxDuration

\* The callers of POST /api/bookings where prices are computed: one user of
\* each role.
CreateCallers == {"s1", "o1", "a1"}

\* POST /api/bookings alone, for stays of any length with or without food.
NextCreate ==
  \E r \in Slots :
    \/ /\ Receive(r)
       /\ \E uid \in CreateCallers, h \in HostelIds \cup {MissingHostel},
             rt \in RoomTypes, dates \in DateInputs,
             duration \in CreateDurations, foodSelected \in BOOLEAN :
            CreateBookingStart(r, uid, h, rt, dates[1], dates[2], duration,
                               foodSelected)
    \/ CreateBookingFind(r)
    \/ \E drawn \in BookingIds, hookFirst \in BOOLEAN :
         CreateBookingSave(r, drawn, hookFirst)

SpecCreate == InitCreate /\ [][NextCreate]_vars

\* The states of a listing: status is set by review ('Under Review' until
\* approved, 'Active' after) and isVerified with it or on its own; a room
\* type may have no room free.
InitListing ==
  /\ bookings = <<>>
  /\ \E free \in {0, 1}, status2 \in {"Active", "Under Review"},
        verified2 \in BOOLEAN :
       hostels = [h \in HostelIds |->
                    IF h = "h1"
                    THEN HostelDoc("o1", "Active", TRUE,
                                   [t \in {"Single"} |->
                                      [totalRooms |-> 1, availableRooms |-> free]],
                                   TRUE)
                    ELSE HostelDoc("o2", status2, verified2,
                                   [t \in {"Single"} |-> Room(1)], FALSE)]
  /\ reqs = [r \in Slots |-> Idle]
  /\ accepted = 0

\* <<checkIn day, nights>> a client may send: check-in yesterday, today or
\* in twenty days; check-out before, on or after the check-in day.
ListingDates ==
  {<<Today - 1, 30>>, <<Today, 0>>, <<Today, 1>>,
   <<Today + 20, -1>>, <<Today + 20, 0>>, <<Today + 20, 30>>}

\* POST /api/bookings alone, for any dates at listings in any state.
NextListing ==
  \E r \in Slots :
    \/ /\ Receive(r)
       /\ \E uid \in UserIds, h \in HostelIds \cup {MissingHostel},
             rt \in RoomTypes, dates \in ListingDates,
             duration \in DurationInputs :
            CreateBookingStart(r, uid, h, rt, dates[1], dates[2], duration,
                               FALSE)
    \/ CreateBookingFind(r)
    \/ \E drawn \in BookingIds, hookFirst \in BOOLEAN :
         CreateBookingSave(r, drawn, hookFirst)

SpecListing == InitListing /\ [][NextListing]_vars

\* ------------------------------------------------------------ payments
\* POST /api/payments/verify of routes/payments.js, lines 92-132: the
\* signature check, razorpay.payments.fetch and orders.fetch (fetched: they
\* answer; otherwise the catch answers 500) and the check that the payment
\* was captured.  protect lets any signed-in user call it.
PaymentsVerifyCheck(ord, pay, sig, fetched, captured) ==
  IF sig # ExpectedSignature(ord, pay) THEN "InvalidSignature"
  ELSE IF ~fetched THEN "ServerError"
  ELSE IF ~captured THEN "NotCaptured"
  ELSE "Proceed"

\* POST /api/payments/verify up to the await of Hostel.findById; h is
\* order.notes.hostelId of the fetched order.
PaymentsVerifyStart(r, uid, ord, pay, sig, fetched, captured, h) ==
  FirstSegment(r, PaymentsVerifyCheck(ord, pay, sig, fetched, captured),
               [Idle EXCEPT !.pc = "pm_hostel", !.user = uid, !.pay = pay,
                            !.hid = h])

\* Line 161: await Hostel.findById(...).populate('owner'); the owner is
\* notified only if the hostel was found.  A hostel that was not found is
\* kept as the empty id.
PaymentsLoadHostel(r) ==
  /\ reqs[r].pc = "pm_hostel"
  /\ IF reqs[r].hid \in DOMAIN hostels
       THEN Goto(r, [reqs[r] EXCEPT !.pc = "pm_owner"])
       ELSE Goto(r, [reqs[r] EXCEPT !.pc = "pm_user", !.hid = ""])
  /\ UNCHANGED <<bookings, hostels, accepted>>

\* Lines 162-183: await Notification.createNotification for the owner, which
\* stores the notification (delivered) or throws; the throw is caught by the
\* handler's catch, lines 217-223, which answers 500.
PaymentsNotifyOwner(r, delivered) ==
  /\ reqs[r].pc = "pm_owner"
  /\ Goto(r, [reqs[r] EXCEPT !.pc = IF delivered THEN "pm_user" ELSE "pm_500"])
  /\ UNCHANGED <<bookings, hostels, accepted>>

\* Lines 186-215: the notification for the caller, whose message reads
\* hostel.name (a TypeError if no hostel was found), then the 200 response;
\* a throw is answered 500 by the catch.
PaymentsNotifyUser(r, delivered) ==
  /\ reqs[r].pc = "pm_user"
  /\ Goto(r, [reqs[r] EXCEPT
                 !.pc = IF reqs[r].hid # "" /\ delivered
                        THEN "pm_200" ELSE "pm_500"])
  /\ UNCHANGED <<bookings, hostels, accepted>>

\* The response has been sent and the request is over.
PaymentsEnd(r) ==
  /\ reqs[r].pc \in {"pm_200", "pm_500"}
  /\ Reply(r)

\* POST /api/payments/verify alone.
NextPayments ==
  \E r \in Slots :
    \/ /\ Receive(r)
       /\ \E uid \in UserIds, ord \in OrderIds, pay \in PaymentIds,
             fetched \in BOOLEAN, captured \in BOOLEAN,
             h \in HostelIds \cup {MissingHostel} :
            \E sig \in ClientSignatures(ord, pay) :
              PaymentsVerifyStart(r, uid, ord, pay, sig, fetched, captured, h)
    \/ PaymentsLoadHostel(r)
    \/ \E delivered \in BOOLEAN : PaymentsNotifyOwner(r, delivered)
    \/ \E delivered \in BOOLEAN : PaymentsNotifyUser(r, delivered)
    \/ PaymentsEnd(r)

SpecPayments == Init /\ [][NextPayments]_vars

\* ------------------------------------------------------------ refunds
\* daysUntilCheckIn at the time of the cancel: the boundaries of the tiers
\* of calculateRefund, a day past check-in and a day well ahead.
RefundDays == {-1, 0, 1, 7, 8, 15, 16, 30, 31, 35}

\* A booking of s1 at h1 that was paid in full (paidAmount = totalAmount,
\* one month at the hostel's rent), its room taken from the inventory, and
\* whose check-in lies daysUntilCheckIn days from today.
InitRefund ==
  /\ \E paid \in 0..MaxPaid, days \in RefundDays :
       /\ bookings =
            << [BlankDoc EXCEPT
                  !.bookingId = 1, !.student = "s1", !.hostel = "h1",
                  !.owner = "o1", !.roomType = "Single",
                  !.checkIn = Today + days, !.duration = 1,
                  !.pricing = [monthlyRent |-> paid, securityDeposit |-> 0,
                               maintenanceCharges |-> 0, totalAmount |-> paid,
                               paidAmount |-> paid, pendingAmount |-> 0],
                  !.status = "Paid",
                  !.payment = [razorpayOrderId |-> "order1",
                               razorpayPaymentId |-> "pay1",
                               razorpaySignature |->
                                 ExpectedSignature("order1", "pay1")]] >>
       /\ hostels = [h \in HostelIds |->
                      IF h = "h1"
                      THEN [HostelDoc("o1", "Active", TRUE,
                                      [t \in {"Single"} |->
                                         [totalRooms |-> 1, availableRooms |-> 0]],
                                      TRUE)
                              EXCEPT !.pricing = [monthlyRent |-> paid,
                                                  securityDeposit |-> 0,
                                                  maintenanceCharges |-> 0],
                                     !.currentOccupancy = 1]
                      ELSE HostelDoc("o2", "Under Review", FALSE,
                                     [t \in {"Single"} |-> Room(1)], FALSE)]
  /\ reqs = [r \in Slots |-> Idle]
  /\ accepted = 0

\* The cancel handler alone.
NextRefund ==
  \E r \in Slots :
    \/ /\ Receive(r)
       /\ \E uid \in UserIds, b \in BookingIds, hasReason \in BOOLEAN :
            CancelStart(r, uid, b, hasReason)
    \/ CancelSave(r)
    \/ CancelLoadHostel(r)
    \/ CancelSaveHostel(r)

SpecRefund == InitRefund /\ [][NextRefund]_vars

\* ------------------------------------------------------------ properties
\* The bookings of a hostel and room type that hold a reservation.
Reservations(h, rt) ==
  {i \in DOMAIN bookings :
     /\ bookings[i].hostel = h
     /\ bookings[i].roomType = rt
     /\ bookings[i].status \in ActiveStatuses}

\* The step taken by the handler in slot r.
StepOf(r) == reqs'[r] # reqs[r]

\* C1: for every hostel and room type, availableRooms plus the number of
\* bookings holding a reservation (Pending, Confirmed, Paid, CheckedIn,
\* Active) equals totalRooms, in every reachable state.
C1_InventoryReconciles ==
  \A h \in DOMAIN hostels : \A rt \in DOMAIN hostels[h].rooms :
    hostels[h].rooms[rt].availableRooms + Cardinality(Reservations(h, rt))
      = hostels[h].rooms[rt].totalRooms

\* C2: availableRooms of a room type is never negative in a stored hostel.
C2_AvailableNeverNegative ==
  \A h \in DOMAIN hostels : \A rt \in DOMAIN hostels[h].rooms :
    hostels[h].rooms[rt].availableRooms >= 0

\* C2 witness: two bookings of a room type with a single room are both
\* Paid, no room is left in store, and the second verification holds the
\* loaded hostel with availableRooms decremented below zero, about to save
\* it.
C2_Witness ==
  \E r \in Slots :
    /\ reqs[r].pc = "pv_hsave"
    /\ reqs[r].avail < 0
    /\ hostels[reqs[r].hid].rooms[reqs[r].rt].availableRooms = 0
    /\ hostels[reqs[r].hid].rooms[reqs[r].rt].totalRooms = 1
    /\ Cardinality({i \in Reservations(reqs[r].hid, reqs[r].rt) :
                      bookings[i].status = "Paid"}) >= 2

\* C3: availableRooms of a room type never exceeds its totalRooms.
C3_AvailableWithinTotal ==
  \A h \in DOMAIN hostels : \A rt \in DOMAIN hostels[h].rooms :
    hostels[h].rooms[rt].availableRooms <= hostels[h].rooms[rt].totalRooms

\* Nothing but createBooking has been taken up since the hostels were set
\* up: every stored booking is still Pending and every handler in flight is
\* a createBooking.
OnlyCreateBooking ==
  /\ \A i \in DOMAIN bookings : bookings[i].status = "Pending"
  /\ \A r \in Slots : reqs[r].pc \in {"idle", "cb_find", "cb_save"}

\* C4: of the createBooking calls made for a room type whose availableRooms
\* is 1, one succeeds and the others are refused: they never leave more
\* than one booking of that room type.
C4_LastRoomBookedOnce ==
  \A h \in DOMAIN hostels : \A rt \in DOMAIN hostels[h].rooms :
    (OnlyCreateBooking /\ hostels[h].rooms[rt].availableRooms = 1)
      => Cardinality(Reservations(h, rt)) <= 1

\* C5: each student has at most one booking in a non-terminal status
\* (Pending, Confirmed, Paid, CheckedIn, Active).
C5_OneActiveBookingPerStudent ==
  \A s \in Students :
    Cardinality({i \in DOMAIN bookings :
                   bookings[i].student = s
                     /\ bookings[i].status \in ActiveStatuses}) <= 1

\* The request bodies <<orderId, paymentId, signature>> whose signature is
\* not HMAC-SHA256(secret, orderId|paymentId).
TamperedBodies ==
  {t \in UNION {{<<ord, pay, sig>> : sig \in ClientSignatures(ord, pay)} :
                  ord \in OrderIds, pay \in PaymentIds} :
     t[3] # Hmac(KeySecret, SignedBody(t[1], t[2]))}

\* C6: a payment verification whose signature is not
\* HMAC-SHA256(secret, orderId|paymentId) is refused and changes nothing:
\* wherever it arrives its checks do not let it proceed, on a booking of
\* the caller (the checks that come first passed) the answer is
\* InvalidSignature, and every verification a handler does take up carries
\* the signature computed with the key secret, so none of the writes that
\* follow is made for a tampered one.
C6_TamperedVerifyChangesNothing ==
  /\ [](\A r \in Slots :
          Receive(r) =>
            \A t \in TamperedBodies, uid \in UserIds, b \in BookingIds :
              IF FindBooking(b) /\ bookings[b].student = uid
                THEN VerifyCheck(uid, b, t[1], t[2], t[3]) = "InvalidSignature"
                ELSE VerifyCheck(uid, b, t[1], t[2], t[3]) # "Proceed")
  /\ [][\A r \in Slots :
          (reqs[r].pc = "idle" /\ reqs'[r].pc = "pv_save")
            => \E uid \in UserIds, ord \in OrderIds :
                 VerifyStart(r, uid, reqs'[r].bid, ord, reqs'[r].pay,
                             Hmac(KeySecret,
                                  SignedBody(ord, reqs'[r].pay)))]_vars

\* C6 witness: a Confirmed, unpaid booking whose student sends a
\* verification signed without the key secret, which the handler answers
\* with InvalidSignature.
C6_Witness ==
  \E b \in DOMAIN bookings : \E r \in Slots :
    /\ bookings[b].status = "Confirmed"
    /\ bookings[b].pricing.paidAmount = 0
    /\ Receive(r)
    /\ VerifyCheck(bookings[b].student, b, "order1", "pay1",
                   Hmac(WrongSecret, SignedBody("order1", "pay1")))
         = "InvalidSignature"

\* C7: a booking becomes Paid only from Confirmed: no step turns a booking
\* of another status (Pending, Cancelled, Rejected, Expired, ...) into Paid.
C7_PaidOnlyFromConfirmed ==
  [][\A b \in DOMAIN bookings :
       (bookings[b].status # "Paid" /\ bookings'[b].status = "Paid")
         => bookings[b].status = "Confirmed"]_vars

\* C8: replaying a verification with the paymentId already stored on a
\* Paid booking is a no-op: with no other handler in flight, the step that
\* ends such a replay leaves availableRooms and currentOccupancy as the
\* first application left them.
C8_ReplayLeavesInventory ==
  [][\A r \in Slots :
       (/\ reqs[r].pc = "pv_hsave"
        /\ reqs[r].from = "Paid"
        /\ reqs[r].samePay
        /\ \A q \in Slots \ {r} : reqs[q].pc = "idle"
        /\ StepOf(r))
         => hostels' = hostels]_vars

\* C9: a verification that finds its booking Paid under another paymentId
\* than the one it carries is refused: none of its steps overwrites the
\* stored payment sub-record or changes the inventory.
C9_SecondPaymentKeepsRecord ==
  [][\A r \in Slots :
       (/\ reqs[r].pc \in {"pv_save", "pv_hsave"}
        /\ reqs[r].from = "Paid"
        /\ ~reqs[r].samePay
        /\ StepOf(r))
         => /\ bookings'[reqs[r].bid].payment = bookings[reqs[r].bid].payment
            /\ hostels' = hostels]_vars

\* The booking a verification loaded has not been written by another
\* handler since: it is stored with the status it was loaded with, and
\* carries the submitted paymentId exactly if it did when loaded.
Undisturbed(r) ==
  /\ bookings[reqs[r].bid].status = reqs[r].from
  /\ (bookings[reqs[r].bid].payment.razorpayPaymentId = reqs[r].pay)
       = reqs[r].samePay

\* C10: the save of a payment verification on a Confirmed booking (one
\* call: the booking is not written by another handler between the load
\* and the save) leaves the stored booking Paid, with
\* paidAmount = totalAmount, pendingAmount = 0 and the submitted paymentId,
\* and leaves totalAmount unchanged.
C10_VerifySettlesBooking ==
  [][\A r \in Slots :
       (/\ reqs[r].pc = "pv_save"
        /\ reqs[r].from = "Confirmed"
        /\ Undisturbed(r)
        /\ StepOf(r))
         => LET b == reqs[r].bid
            IN /\ bookings'[b].status = "Paid"
               /\ bookings'[b].pricing.paidAmount = bookings[b].pricing.totalAmount
               /\ bookings'[b].pricing.pendingAmount = 0
               /\ bookings'[b].payment.razorpayPaymentId = reqs[r].pay
               /\ reqs[r].pay \in PaymentIds
               /\ bookings'[b].pricing.totalAmount
                    = bookings[b].pricing.totalAmount]_vars

\* C10 witness: a verification that loaded a Confirmed booking has saved
\* it, and the stored booking is Paid in full.
C10_Witness ==
  \E r \in Slots :
    /\ reqs[r].pc = "pv_hostel"
    /\ reqs[r].from = "Confirmed"
    /\ bookings[reqs[r].bid].status = "Paid"
    /\ bookings[reqs[r].bid].pricing.paidAmount
         = bookings[reqs[r].bid].pricing.totalAmount
    /\ bookings[reqs[r].bid].pricing.pendingAmount = 0

\* C11: every stored booking has pendingAmount = totalAmount - paidAmount,
\* after every operation that saves it.
C11_PendingIsTotalLessPaid ==
  \A b \in DOMAIN bookings :
    bookings[b].pricing.pendingAmount
      = bookings[b].pricing.totalAmount - bookings[b].pricing.paidAmount

\* C11 witness: a booking saved by createBooking, by a payment verification
\* and by cancel: it is Cancelled with its amount paid, and its total is
\* not zero.
C11_Witness ==
  \E b \in DOMAIN bookings :
    /\ bookings[b].status = "Cancelled"
    /\ bookings[b].pricing.totalAmount > 0
    /\ bookings[b].pricing.paidAmount = bookings[b].pricing.totalAmount
    /\ bookings[b].pricing.pendingAmount = 0

\* C12: a successful createBooking stores a new Pending booking and
\* reserves a room: the step that stores the booking leaves availableRooms
\* of its hostel and room type one less than before.
C12_CreateReservesRoom ==
  [][\A r \in Slots :
       (reqs[r].pc = "cb_save" /\ Len(bookings') = Len(bookings) + 1)
         => LET new == bookings'[Len(bookings')]
            IN /\ new.status = "Pending"
               /\ hostels'[new.hostel].rooms[new.roomType].availableRooms
                    = hostels[new.hostel].rooms[new.roomType].availableRooms - 1]_vars

\* C13: cancel and payment verification are all-or-nothing: in no state has
\* a handler stored its booking as Cancelled, or as Paid, with the change
\* of availableRooms that goes with it still to be made.
C13_StatusAndInventoryTogether ==
  \A r \in Slots :
    /\ ~(reqs[r].pc \in {"cn_hostel", "cn_hsave"}
           /\ bookings[reqs[r].bid].status = "Cancelled")
    /\ ~(reqs[r].pc \in {"pv_hostel", "pv_hsave"}
           /\ reqs[r].from # "Paid"
           /\ bookings[reqs[r].bid].status = "Paid")

\* C14: of two concurrent confirm calls on a Pending booking one fails: no
\* confirm completes its save on a booking already stored as Confirmed.
C14_SecondConfirmRefused ==
  [][\A r \in Slots :
       (reqs[r].pc = "cf_save" /\ StepOf(r))
         => bookings[reqs[r].bid].status # "Confirmed"]_vars

\* C15: confirm goes through only for the owner of a Pending booking and
\* then stores it as Confirmed, changing nothing else of it; the owner's
\* confirm of a booking in another status is answered InvalidTransition
\* and a confirm by anyone else Forbidden, and neither takes a step.
C15_ConfirmOnlyPendingByOwner ==
  /\ [](\A r \in Slots :
          Receive(r) =>
            \A uid \in UserIds, b \in DOMAIN bookings :
              ConfirmCheck(uid, b) =
                IF bookings[b].owner # uid THEN "Forbidden"
                ELSE IF bookings[b].status # "Pending" THEN "InvalidTransition"
                ELSE "Proceed")
  /\ [][\A r \in Slots :
          /\ (reqs[r].pc = "idle" /\ reqs'[r].pc = "cf_save")
               => /\ bookings[reqs'[r].bid].status = "Pending"
                  /\ ConfirmStart(r, bookings[reqs'[r].bid].owner, reqs'[r].bid)
          /\ (reqs[r].pc = "cf_save" /\ StepOf(r))
               => bookings'[reqs[r].bid]
                    = [bookings[reqs[r].bid] EXCEPT !.status = "Confirmed"]]_vars

\* C15 witness: a booking the owner has confirmed; a further confirm by
\* the owner is answered InvalidTransition and one by another owner
\* Forbidden.
C15_Witness ==
  \E b \in DOMAIN bookings : \E r \in Slots :
    /\ bookings[b].status = "Confirmed"
    /\ Receive(r)
    /\ ConfirmCheck(bookings[b].owner, b) = "InvalidTransition"
    /\ ConfirmCheck("o2", b) = "Forbidden"

\* C16: a successful reject of a Pending booking stores it as Rejected
\* with cancelledBy = Owner and releases its room: availableRooms of its
\* hostel and room type rises by 1.
C16_RejectReleasesRoom ==
  [][\A r \in Slots :
       (reqs[r].pc = "rj_save" /\ reqs'[r].pc = "idle"
          /\ bookings' # bookings)
         => LET b == reqs[r].bid
                h == bookings[b].hostel
                rt == bookings[b].roomType
            IN /\ bookings'[b].status = "Rejected"
               /\ bookings'[b].cancellation.cancelledBy = "Owner"
               /\ hostels'[h].rooms[rt].availableRooms
                    = hostels[h].rooms[rt].availableRooms + 1]_vars

\* The statuses from which the specification allows cancel.
CancellableStatuses == {"Pending", "Confirmed", "Paid"}

\* C17: cancel goes through only from Pending, Confirmed or Paid: on a
\* booking in any other status a caller allowed to cancel it is answered
\* InvalidTransition and no step is taken, so neither the booking nor
\* availableRooms changes.
C17_CancelOnlyFromCancellable ==
  /\ [](\A st \in Statuses :
          CanBeCancelled([BlankDoc EXCEPT !.status = st])
            <=> st \in CancellableStatuses)
  /\ [](\A r \in Slots :
          Receive(r) =>
            \A uid \in UserIds, b \in DOMAIN bookings :
              CanCancel(bookings[b], uid) =>
                CancelCheck(uid, b, TRUE) =
                  IF bookings[b].status \in CancellableStatuses
                  THEN "Proceed" ELSE "InvalidTransition")
  /\ [][\A r \in Slots :
          (reqs[r].pc = "idle" /\ reqs'[r].pc = "cn_save")
            => bookings[reqs'[r].bid].status \in CancellableStatuses]_vars

\* C17 witness: a Cancelled booking whose student asks to cancel it again
\* and is answered InvalidTransition.
C17_Witness ==
  \E b \in DOMAIN bookings : \E r \in Slots :
    /\ bookings[b].status = "Cancelled"
    /\ Receive(r)
    /\ CancelCheck(bookings[b].student, b, TRUE) = "InvalidTransition"

\* C18: a successful cancel stores the booking as Cancelled and releases
\* one room: its hostel is loaded and availableRooms of the booking's room
\* type raised by 1, and (the hostel not being written by another handler
\* between that load and the save) the save leaves exactly that
\* availableRooms higher by 1 and every other room type and hostel as it
\* was.
C18_CancelReleasesOneRoom ==
  [][\A r \in Slots :
       /\ (reqs[r].pc = "cn_save" /\ reqs'[r].pc = "cn_hostel")
            => bookings'[reqs[r].bid].status = "Cancelled"
       /\ (reqs[r].pc = "cn_hostel" /\ StepOf(r))
            => /\ reqs'[r].pc = "cn_hsave"
               /\ reqs'[r].avail
                    = hostels[reqs[r].hid].rooms[reqs[r].rt].availableRooms + 1
       /\ (reqs[r].pc = "cn_hsave" /\ StepOf(r)
             /\ hostels[reqs[r].hid].rooms[reqs[r].rt].availableRooms
                  = reqs[r].avail - 1)
            => /\ reqs'[r].pc = "idle"
               /\ \A h \in DOMAIN hostels : \A rt \in DOMAIN hostels[h].rooms :
                    /\ hostels'[h].rooms[rt].totalRooms
                         = hostels[h].rooms[rt].totalRooms
                    /\ hostels'[h].rooms[rt].availableRooms
                         = IF h = reqs[r].hid /\ rt = reqs[r].rt
                           THEN hostels[h].rooms[rt].availableRooms + 1
                           ELSE hostels[h].rooms[rt].availableRooms]_vars

\* C18 witness: a paid booking has been cancelled and no handler is in
\* flight: the room its payment took is available again.
C18_Witness ==
  \E b \in DOMAIN bookings :
    /\ bookings[b].status = "Cancelled"
    /\ bookings[b].pricing.paidAmount > 0
    /\ \A r \in Slots : reqs[r].pc = "idle"
    /\ hostels[bookings[b].hostel].rooms[bookings[b].roomType].availableRooms
         = hostels[bookings[b].hostel].rooms[bookings[b].roomType].totalRooms

\* computeRefund(paidAmount, daysUntilCheckIn) of the specification, in
\* exact arithmetic: floor(paidAmount x pct), pct in tenths.
ComputeRefund(paidAmount, d) ==
  LET tenths == IF d > 30 THEN 9
                ELSE IF 16 <= d /\ d <= 30 THEN 7
                ELSE IF 8 <= d /\ d <= 15 THEN 5
                ELSE IF 1 <= d /\ d <= 7 THEN 2
                ELSE 0
  IN (paidAmount * tenths) \div 10

C20_RefundIsFloorOfShare ==
  \A b \in DOMAIN bookings :
    CalculateRefund(bookings[b])
      = ComputeRefund(bookings[b].pricing.paidAmount,
                      bookings[b].checkIn - Today)

\* C21: the totalAmount createBooking persists is monthlyRent x duration +
\* securityDeposit + maintenanceCharges x duration + foodMonthlyCost x
\* duration, the food term being 0 when no food plan is selected; the
\* tariffs are those of the booked hostel and foodMonthlyCost is the cost
\* recorded with the booking's food plan.
C21_TotalIsSumOfTerms ==
  [][\A r \in Slots :
       (reqs[r].pc = "cb_save" /\ Len(bookings') = Len(bookings) + 1)
         => LET new == bookings'[Len(bookings')]
                tariff == hostels[new.hostel].pricing
            IN /\ new.duration >= 1
               /\ new.pricing.totalAmount
                    = tariff.monthlyRent * new.duration
                        + tariff.securityDeposit
                        + tariff.maintenanceCharges * new.duration
                        + (IF new.foodOptions.selected
                           THEN new.foodOptions.monthlyCost * new.duration
                           ELSE 0)]_vars

\* The dates the specification refuses: checkIn earlier than today, or
\* checkOut (checkIn + nights) not strictly after checkIn.
BadDates(dates) == dates[1] < Today \/ dates[1] + dates[2] <= dates[1]

\* C22: createBooking with checkIn earlier than today or checkOut not
\* strictly after checkIn is answered with a validation error (400) and
\* takes no step, so no booking is persisted and availableRooms is
\* unchanged: every createBooking that is taken up was sent with good dates,
\* and every persisted booking has its checkIn today or later.
C22_BadDatesRefused ==
  /\ [](\A r \in Slots :
          Receive(r) =>
            \A uid \in Students, h \in HostelIds \cup {MissingHostel},
               rt \in RoomTypes, dates \in ListingDates,
               duration \in DurationInputs :
              BadDates(dates) =>
                CreateBookingCheck(uid, h, rt, dates[1], dates[2], duration)
                  \in {"ValidationFailed", "PastCheckIn", "BadCheckOut"})
  /\ [][\A r \in Slots :
          /\ (reqs[r].pc = "idle" /\ reqs'[r].pc = "cb_find")
               => /\ reqs'[r].doc.checkIn >= Today
                  /\ \E uid \in Students, h \in HostelIds, rt \in RoomTypes,
                        dates \in {d \in ListingDates : ~BadDates(d)},
                        duration \in DurationInputs :
                       CreateBookingStart(r, uid, h, rt, dates[1], dates[2],
                                          duration, FALSE)
          /\ Len(bookings') > Len(bookings)
               => bookings'[Len(bookings')].checkIn >= Today]_vars

\* C22 witness: a student with no booking yet asks for a free room of an
\* Active, verified hostel with a check-in yesterday, and with a check-out
\* on the check-in day, and is refused both times, while a booking with
\* good dates has been persisted by another student.
C22_Witness ==
  \E r \in Slots : \E s \in Students :
    /\ Receive(r)
    /\ ~HasActiveBooking(s)
    /\ RoomAvailable(hostels["h1"], "Single")
    /\ CreateBookingCheck(s, "h1", "Single", Today - 1, 30, 2) = "PastCheckIn"
    /\ CreateBookingCheck(s, "h1", "Single", Today + 20, 0, 2) = "BadCheckOut"
    /\ CreateBookingCheck(s, "h1", "Single", Today + 20, -1, 2) = "BadCheckOut"
    /\ \E b \in DOMAIN bookings : bookings[b].checkIn = Today

\* C23: createBooking is answered HostelUnavailable when the hostel is not
\* both Active and verified, and RoomUnavailable when the hostel has no
\* room of the requested type or none of them free (availableRooms <= 0),
\* as the handler reads the hostel; it then takes no step, so no booking is
\* persisted and no inventory changes.  Every createBooking taken up is for
\* a free room of an Active, verified hostel.
C23_UnavailableRefused ==
  /\ [](\A r \in Slots :
          Receive(r) =>
            \A uid \in Students, h \in HostelIds, rt \in RoomTypes,
               dates \in {d \in ListingDates : ~BadDates(d)},
               duration \in {d \in DurationInputs : d >= 1} :
              CreateBookingCheck(uid, h, rt, dates[1], dates[2], duration)
                = IF hostels[h].status # "Active" \/ ~hostels[h].isVerified
                  THEN "HostelUnavailable"
                  ELSE IF rt \notin DOMAIN hostels[h].rooms
                            \/ hostels[h].rooms[rt].availableRooms <= 0
                  THEN "RoomUnavailable"
                  ELSE "Proceed")
  /\ [][\A r \in Slots :
          (reqs[r].pc = "idle" /\ reqs'[r].pc = "cb_find")
            => LET doc == reqs'[r].doc
                   hostel == hostels[doc.hostel]
               IN /\ hostel.status = "Active" /\ hostel.isVerified
                  /\ doc.roomType \in DOMAIN hostel.rooms
                  /\ hostel.rooms[doc.roomType].availableRooms > 0
                  /\ hostels' = hostels /\ bookings' = bookings]_vars

\* C23 witness: s1 has booked at h1; s2, who has no booking, is refused at
\* h2, which is Active but not verified (HostelUnavailable), and for a
\* Double room at h1, which has none (RoomUnavailable).
C23_Witness ==
  \E r \in Slots :
    /\ Receive(r)
    /\ \E b \in DOMAIN bookings : bookings[b].student = "s1"
    /\ ~HasActiveBooking("s2")
    /\ hostels["h2"].status = "Active" /\ ~hostels["h2"].isVerified
    /\ CreateBookingCheck("s2", "h2", "Single", Today + 20, 30, 2)
         = "HostelUnavailable"
    /\ CreateBookingCheck("s2", "h1", "Double", Today + 20, 30, 2)
         = "RoomUnavailable"
    /\ CreateBookingCheck("s2", "h1", "Single", Today + 20, 30, 2) = "Proceed"

\* C24: terminal statuses are absorbing: a booking whose status is
\* Cancelled, Rejected, Expired or Completed keeps that status through every
\* step of confirm, reject, cancel, create-order and payment verification.
C24_TerminalIsAbsorbing ==
  [][\A b \in DOMAIN bookings :
       bookings[b].status \in TerminalStatuses
         => bookings'[b].status = bookings[b].status]_vars

\* The status of the b-th stored booking, if there is one.
StatusOf(b) == IF b \in DOMAIN bookings THEN bookings[b].status ELSE ""

\* C25: a booking that is Confirmed does not stay Confirmed for ever: it
\* makes progress or, the window elapsed, it becomes Expired (and its
\* reservation is released).
C25_ConfirmedEventuallyMoves ==
  \A b \in 1..MaxRequests :
    (StatusOf(b) = "Confirmed") ~> (StatusOf(b) # "Confirmed")

\* availableRooms of the hostel and room type handler r is writing, in the
\* given hostels collection.
StoredAvailable(hs, r) == hs[reqs[r].hid].rooms[reqs[r].rt].availableRooms

\* C26: concurrent inventory updates of one hostel and room type are never
\* lost: every successful release (the hostel save of a cancel) leaves
\* availableRooms one above the value stored when it is written, and every
\* successful decrement (the hostel save of a payment verification) one
\* below, so that k releases and m decrements leave the initial value
\* + k - m.
C26_InventoryUpdatesNotLost ==
  [][\A r \in Slots :
       /\ (reqs[r].pc = "cn_hsave" /\ StepOf(r) /\ HostelValid(reqs[r].avail))
            => StoredAvailable(hostels', r) = StoredAvailable(hostels, r) + 1
       /\ (reqs[r].pc = "pv_hsave" /\ StepOf(r) /\ HostelValid(reqs[r].avail))
            => StoredAvailable(hostels', r) = StoredAvailable(hostels, r) - 1]_vars

\* The cancelledBy value the specification gives to a caller's role.
ActorOfRole(role) == IF role = "HostelOwner" THEN "Owner" ELSE role

\* C27: a cancel by a permitted actor (the booking's student, its owner or
\* an admin) that found the booking Pending, Confirmed or Paid succeeds: its
\* save stores the booking as Cancelled with cancelledBy the value among
\* Student, Owner and Admin that corresponds to the caller (whose role the
\* handler put into cancellation.cancelledBy of the document it saves).
C27_CancelRecordsActor ==
  [][\A r \in Slots :
       (reqs[r].pc = "cn_save" /\ StepOf(r))
         => LET new == bookings'[reqs[r].bid]
            IN /\ reqs'[r].pc = "cn_hostel"
               /\ new.status = "Cancelled"
               /\ new.cancellation.cancelledBy
                    = ActorOfRole(reqs[r].doc.cancellation.cancelledBy)
               /\ new.cancellation.cancelledBy \in {"Student", "Owner", "Admin"}]_vars

\* C28: no two persisted bookings share a bookingId, and a createBooking
\* whose generated bookingId repeats that of a stored booking regenerates
\* the id and inserts again instead of failing: its save persists the
\* booking all the same.
C28_CollisionIsRetried ==
  /\ [](\A i \in DOMAIN bookings : \A j \in DOMAIN bookings :
          i # j => bookings[i].bookingId # bookings[j].bookingId)
  /\ [][\A r \in Slots : \A drawn \in DOMAIN bookings :
          CreateBookingSave(r, drawn, TRUE)
            => Len(bookings') = Len(bookings) + 1]_vars

C30_BookingsAreKept ==
  [][/\ Len(bookings') >= Len(bookings)
     /\ \A b \in DOMAIN bookings :
          /\ FindBooking(b)'
          /\ bookings'[b].bookingId = bookings[b].bookingId
          /\ bookings'[b].student = bookings[b].student
          /\ bookings'[b].hostel = bookings[b].hostel]_vars

\* C30 witness: a booking in a terminal status is still stored after a
\* later booking has been created and has itself been changed.
C30_Witness ==
  /\ Len(bookings) >= 2
  /\ bookings[1].status \in TerminalStatuses
  /\ bookings[2].status \notin {"Pending"}
  /\ \A r \in Slots : reqs[r].pc = "idle"

\* C31: a failure of notification delivery never blocks or rolls back the
\* operation that triggered it: a payment verification that has passed its
\* checks and found the hostel goes on from each notification to the next
\* and to its 200 response, whether or not the notifier throws.
C31_NotifierFailureIsHarmless ==
  [][\A r \in Slots :
       /\ (reqs[r].pc = "pm_owner" /\ StepOf(r)) => reqs'[r].pc = "pm_user"
       /\ (reqs[r].pc = "pm_user" /\ reqs[r].hid # "" /\ StepOf(r))
            => reqs'[r].pc = "pm_200"]_vars

\* C32: a Paid booking can progress through CheckedIn, Active, CheckedOut to
\* Completed, each step only from its exact predecessor and none changing
\* availableRooms. Its first part: whenever a booking is Paid and a request
\* can still be received, some step of the program stores it as CheckedIn.
C32_PaidCanCheckIn ==
  \A b \in DOMAIN bookings :
    (bookings[b].status = "Paid" /\ \E r \in Slots : Receive(r))
      => ENABLED (Next /\ bookings'[b].status = "CheckedIn")

\* C33: two concurrent cancel calls on the same cancellable booking release
\* its reservation at most once and at most one of them reports success: a
\* cancel whose booking save goes through (the handler goes on to release
\* the room and to answer 200) finds the stored booking not yet Cancelled.
C33_CancelReleasesOnce ==
  [][\A r \in Slots :
       (reqs[r].pc = "cn_save" /\ reqs'[r].pc = "cn_hostel")
         => bookings[reqs[r].bid].status # "Cancelled"]_vars

\* C34: when cancel and payment verification run concurrently on the same
\* Confirmed booking, exactly one of them takes effect: a cancel that loaded
\* the booking as Confirmed does not save over a booking stored as Paid in
\* the meantime, and a verification that loaded it as Confirmed does not
\* save over a booking stored as Cancelled in the meantime, so that no mix
\* of the two outcomes is stored.
C34_CancelOrVerifyNotBoth ==
  [][\A r \in Slots :
       /\ (reqs[r].pc = "cn_save" /\ reqs[r].from = "Confirmed"
             /\ reqs'[r].pc = "cn_hostel")
            => bookings[reqs[r].bid].status # "Paid"
       /\ (reqs[r].pc = "pv_save" /\ reqs[r].from = "Confirmed"
             /\ reqs'[r].pc = "pv_hostel")
            => bookings[reqs[r].bid].status # "Cancelled"]_vars

\* C35: a booking becomes Paid only through a payment confirmation for the
\* gateway order created for it: a payment verification passes its checks
\* only if the submitted order id is the razorpayOrderId stored on the
\* booking, so that a validly signed (orderId, paymentId) pair of another
\* order is refused.
C35_VerifyNeedsOwnOrder ==
  \A r \in Slots :
    Receive(r) =>
      \A uid \in UserIds, b \in DOMAIN bookings,
         ord \in OrderIds, pay \in PaymentIds :
        \A sig \in ClientSignatures(ord, pay) :
          VerifyCheck(uid, b, ord, pay, sig) = "Proceed"
            => ord = bookings[b].payment.razorpayOrderId

\* C36: in every reachable state a booking's paidAmount is 0 or its
\* totalAmount, and it is above 0 only for a booking that is Paid or was
\* Paid before being cancelled: a Pending, Confirmed or Rejected booking
\* has paidAmount = 0.
C36_PaidAmountFollowsStatus ==
  \A b \in DOMAIN bookings :
    /\ bookings[b].pricing.paidAmount \in {0, bookings[b].pricing.totalAmount}
    /\ bookings[b].pricing.paidAmount > 0
         => bookings[b].status \in {"Paid", "Cancelled"}
    /\ bookings[b].status \in {"Pending", "Confirmed", "Rejected"}
         => bookings[b].pricing.paidAmount = 0

\* C37: create-order succeeds only for the booking's own student on a
\* booking in status Confirmed with pendingAmount > 0; it asks the gateway
\* for an order of exactly pendingAmount x 100 (minor units), stores the
\* returned order id on the booking (an id new to the booking: the gateway
\* issues a fresh id for every order), and changes neither the booking's
\* status and amounts, nor another booking, nor any inventory.
C37_CreateOrderOnlyStoresOrder ==
  /\ [](\A r \in Slots :
          Receive(r) =>
            \A uid \in UserIds, b \in BookingIds, ok \in BOOLEAN :
              CreateOrderCheck(uid, b, ok) = "Proceed"
                => /\ FindBooking(b)
                   /\ RoleOf(uid) = "Student"
                   /\ bookings[b].student = uid
                   /\ bookings[b].status = "Confirmed"
                   /\ bookings[b].pricing.pendingAmount > 0)
  /\ [][\A r \in Slots :
          /\ (reqs[r].pc = "idle" /\ reqs'[r].pc = "co_save")
               => /\ reqs'[r].amount
                       = bookings[reqs'[r].bid].pricing.pendingAmount * 100
                  /\ reqs'[r].amount > 0
                  /\ UNCHANGED <<bookings, hostels>>
          /\ (reqs[r].pc = "co_save" /\ StepOf(r))
               => /\ hostels' = hostels
                  /\ \E ord \in GatewayOrderIds \cup
                                  {bookings[reqs[r].bid].payment.razorpayOrderId} :
                       bookings' = [bookings EXCEPT
                                      ![reqs[r].bid].payment.razorpayOrderId = ord]
                  /\ "payment.razorpayOrderId" \in reqs[r].dirty
                       => bookings'[reqs[r].bid].payment.razorpayOrderId
                            = reqs[r].doc.payment.razorpayOrderId]_vars

\* C37 witness: create-order has run for a Confirmed booking: the booking
\* carries the gateway's order id, is still Confirmed with its whole amount
\* pending, and a further create-order by another user would be refused.
C37_Witness ==
  \E r \in Slots : \E b \in DOMAIN bookings :
    /\ Receive(r)
    /\ bookings[b].status = "Confirmed"
    /\ bookings[b].payment.razorpayOrderId \in GatewayOrderIds
    /\ bookings[b].pricing.paidAmount = 0
    /\ bookings[b].pricing.pendingAmount = bookings[b].pricing.totalAmount
    /\ bookings[b].pricing.pendingAmount > 0
    /\ CreateOrderCheck(bookings[b].student, b, TRUE) = "Proceed"
    /\ \A uid \in UserIds \ {bookings[b].student} :
         CreateOrderCheck(uid, b, TRUE) = "Forbidden"

\* The bookings of hostel h stored as Paid.
PaidBookings(h) ==
  {i \in DOMAIN bookings : bookings[i].hostel = h /\ bookings[i].status = "Paid"}

\* C38: the hostel's currentOccupancy stays consistent with the paid
\* reservations: whenever no handler is in flight it equals its initial
\* value (0) plus the number of the hostel's bookings in status Paid, so it
\* returns to its previous value when a Paid booking is cancelled.
C38_OccupancyCountsPaid ==
  (\A r \in Slots : reqs[r].pc = "idle")
    => \A h \in DOMAIN hostels :
         hostels[h].currentOccupancy = Cardinality(PaidBookings(h))

\* C39: every persisted booking is internally price-consistent: its
\* totalAmount is its own monthlyRent x duration + securityDeposit +
\* maintenanceCharges x duration, plus its foodOptions.monthlyCost x
\* duration if its stored foodOptions.selected is true, also when the
\* student selected food at a hostel whose food option is not available.
C39_StoredPriceIsConsistent ==
  \A b \in DOMAIN bookings :
    LET doc == bookings[b]
        food == IF doc.foodOptions.selected
                THEN doc.foodOptions.monthlyCost * doc.duration
                ELSE 0
    IN doc.pricing.totalAmount
         = doc.pricing.monthlyRent * doc.duration
             + doc.pricing.securityDeposit
             + doc.pricing.maintenanceCharges * doc.duration
             + food

\* C40: a request rejected for authorization (confirm or reject by a user
\* who is not the booking's owner, payment verify or create-order by a user
\* who is not the booking's student, cancel by a user who is neither the
\* booking's student, its owner nor an admin) leaves the booking and all
\* inventory unchanged: such a request is answered 403 by the handler's
\* checks and takes no step, and every handler that goes on towards a write
\* was called by a user entitled to it.
C40_ForbiddenChangesNothing ==
  /\ [](\A r \in Slots :
          Receive(r) =>
            \A uid \in UserIds, b \in DOMAIN bookings :
              /\ bookings[b].owner # uid
                   => /\ ConfirmCheck(uid, b) = "Forbidden"
                      /\ RejectCheck(uid, b) = "Forbidden"
              /\ bookings[b].student # uid
                   => /\ \A ok \in BOOLEAN :
                           CreateOrderCheck(uid, b, ok) = "Forbidden"
                      /\ \A ord \in OrderIds, pay \in PaymentIds :
                           \A sig \in ClientSignatures(ord, pay) :
                             VerifyCheck(uid, b, ord, pay, sig) = "Forbidden"
              /\ (bookings[b].student # uid /\ bookings[b].owner # uid
                    /\ RoleOf(uid) # "Admin")
                   => CancelCheck(uid, b, TRUE) = "Forbidden")
  /\ [][\A r \in Slots :
          LET b == reqs'[r].bid
          IN /\ (reqs[r].pc = "idle" /\ reqs'[r].pc = "cf_save")
                  => ConfirmStart(r, bookings[b].owner, b)
             /\ (reqs[r].pc = "idle" /\ reqs'[r].pc = "rj_save")
                  => RejectStart(r, bookings[b].owner, b)
             /\ (reqs[r].pc = "idle" /\ reqs'[r].pc = "co_save")
                  => \E ord \in GatewayOrderIds :
                       CreateOrderStart(r, bookings[b].student, b, TRUE, ord)
             /\ (reqs[r].pc = "idle" /\ reqs'[r].pc = "pv_save")
                  => \E ord \in OrderIds, pay \in PaymentIds :
                       VerifyStart(r, bookings[b].student, b, ord, pay,
                                   ExpectedSignature(ord, pay))
             /\ (reqs[r].pc = "idle" /\ reqs'[r].pc = "cn_save")
                  => \E uid \in {bookings[b].student, bookings[b].owner}
                                  \cup Admins :
                       CancelStart(r, uid, b, TRUE)]_vars

\* C40 witness: a Confirmed booking of student s1 at the hostel of owner o1
\* is stored and a request can be received: confirm and reject by o2,
\* create-order and verify by s2, and cancel by s2 and by o2 would all be
\* answered 403, while the entitled callers would be taken up.
C40_Witness ==
  \E r \in Slots : \E b \in DOMAIN bookings :
    /\ Receive(r)
    /\ bookings[b].status = "Confirmed"
    /\ bookings[b].student = "s1"
    /\ bookings[b].owner = "o1"
    /\ ConfirmCheck("o2", b) = "Forbidden"
    /\ RejectCheck("o2", b) = "Forbidden"
    /\ CreateOrderCheck("s2", b, TRUE) = "Forbidden"
    /\ VerifyCheck("s2", b, "order1", "pay1",
                   ExpectedSignature("order1", "pay1")) = "Forbidden"
    /\ CancelCheck("s2", b, TRUE) = "Forbidden"
    /\ CancelCheck("o2", b, TRUE) = "Forbidden"
    /\ CancelCheck("s1", b, TRUE) = "Proceed"
    /\ CreateOrderCheck("s1", b, TRUE) = "Proceed"
    /\ VerifyCheck("s1", b, "order1", "pay1",
                   ExpectedSignature("order1", "pay1")) = "Proceed"

====
